---- MODULE Spec2Model ----
(***************************************************************************)
(* Model of the two concurrent components of selin-context-extender:       *)
(*   - the WebSocket connection hub (Hub.run, wsHandler, Client.readPump,  *)
(*     Client.writePump) of services/mcp-server/main.go, and               *)
(*   - the Redis sliding-window rate limiter (RateLimiter.IsAllowed) of    *)
(*     services/api-gateway/rate_limiter.go.                               *)
(* Each component has its own specifications; the variables of the other   *)
(* components keep their initial values.                                   *)
(***************************************************************************)
EXTENDS Integers, Sequences, FiniteSets, Bags, TLC

(***************************************************************************)
(* Bounds of the model.                                                    *)
(***************************************************************************)
\* capacity of a session's outbound queue: make(chan []byte, 256), scaled
QueueCap == 2
\* number of messages producers hand to the hub in one behaviour
MaxBroadcasts == 2

\* rl.limit: requests per window (RATE_LIMIT, default 60), scaled
Limit == 2
\* rl.window: time.Minute, in clock ticks, scaled
Window == 3
\* spacing of the float64 values around now.UnixNano() (256 ns today), in
\* clock ticks, scaled
Ulp == 2
\* number of ticks the clock makes in one behaviour
MaxTicks == 3
\* number of IsAllowed calls started in one behaviour
MaxCalls == 3

\* the period of writePump's ticker (54 * time.Second) and the read deadline
\* of readPump (60 * time.Second), in keepalive ticks, scaled
PingPeriod == 2
PongWait == 3
\* the keepalive clock stops one tick after a ping period and a read deadline
MaxClock == PingPeriod + PongWait + 1
\* the zero time.Time: a connection without read deadline
NoDeadline == -1

\* the sessions of a behaviour (accepted transport handshakes); NoClient is
\* the value of cur before the hub has received any client
Clients == {1, 2}
NoClient == 0

\* message ids: the welcome message, the k-th broadcast message (k >= 1),
\* and the websocket close frame written by writePump
Welcome == 0
CloseMessage == -1

VARIABLES
    \* ---- Hub (main.go:1013-1018) ----
    clients,      \* h.clients: the set of keys of the registry map
    hubpc,        \* position of Hub.run: "select", "register", "unregister", "broadcast"
    cur,          \* the client received by the register / unregister case
    message,      \* the message received by the broadcast case
    todo,         \* clients the range loop of the broadcast case has yet to visit
    \* ---- Client (main.go:1005-1011) ----
    send,         \* c.send: contents of the buffered channel, oldest first
    closed,       \* whether close(c.send) has been executed
    conn,         \* c.conn: "open" or "closed"
    hpc,          \* position of wsHandler for the session
    rpc,          \* position of readPump
    wpc,          \* position of writePump
    wbuf,         \* the frame writePump is assembling (w.Write calls)
    wn,           \* the loop bound n - i of writePump's batching loop
    \* ---- metrics (main.go:967-990) ----
    active,       \* activeConnections gauge
    connected,    \* connectionsTotal{status="connected"}
    disconnected, \* connectionsTotal{status="disconnected"}
    panicked,     \* a goroutine panicked (send on / close of a closed channel)
    \* ---- history variables (observations, not program state) ----
    nbcast,       \* number of broadcast hand-offs accepted by the hub
    enq,          \* per session: every message ever enqueued on c.send, in order
    wire,         \* per session: every message written to the transport, in order
    regDone,      \* per session: nbcast when its register hand-off returned
    mark,         \* first broadcast handed off while some registered queue was full
    snapFull,     \* sessions registered with a full queue at that hand-off
    snapRoom,     \* per session: free queue slots at that hand-off (-1: not registered)
    snapDeq       \* per session: messages dequeued by the writer so far at that hand-off

VARIABLES
    \* ---- Redis (the shared store) and the clock ----
    now,          \* the clock read by time.Now() and by the store for expiry
    zset,         \* per key: the members of the sorted set (the score of a
                  \* member is Float64 of the timestamp it spells)
    ttl,          \* per key: the instant the key expires, NoTTL if none
    \* ---- one IsAllowed call per caller goroutine ----
    cpc,          \* position of the call: "idle", then the next pipeline
                  \* command the store has yet to execute
    cuser,        \* the userID argument
    cnow,         \* now := time.Now()
    ccount,       \* the reply of ZCARD (countCmd.Val())
    \* ---- history variables ----
    ncalls,       \* number of calls started
    overlap,      \* whether some call started while another one was running
    hist          \* the bag of the completed calls

VARIABLES
    \* ---- the gateway process (api-gateway/main.go, rate_limiter.go) ----
    env,          \* the value of RATE_LIMIT in the environment, as characters
    ctl,          \* the controller main got from NewRateLimiter, if any
    mreq,         \* per caller: the request its Middleware invocation serves
    \* ---- history variable ----
    resp          \* the outcomes of the completed Middleware invocations

VARIABLES
    \* ---- keepalive of the sessions (main.go:1096-1101, 1124, 1157-1161) ----
    clock,        \* the time in keepalive ticks, read by time.Now()
    deadline,     \* per session: the read deadline of c.conn
    nextPing,     \* per session: the instant the ticker of writePump fires next
    pinged,       \* per session: a ping was written and no pong received since
    \* ---- history variable ----
    lastAct       \* per session: the instant its peer last did anything
                  \* (handshake, message, pong)

VARIABLES
    \* ---- generateClientID (main.go:1166-1169) ----
    inow,         \* the clock in nanoseconds, scaled
    gpc,          \* position of the call: "idle", or "format" after the first
                  \* clock reading
    gnano,        \* nano := time.Now().UnixNano()
    \* ---- history variables ----
    ngen,         \* number of calls started
    issued        \* the calls completed: first clock reading and id returned

VARIABLES
    \* ---- queryHandler (api-gateway/main.go:112-140) ----
    qreq,         \* the request: its method and its body
    qpc,          \* position of the handler
    qprompt,      \* req.Prompt
    qout,         \* the response written: status and the fields of the body
    \* ---- history variable ----
    qread         \* whether the handler has read from r.Body

rlvars == <<now, zset, ttl, cpc, cuser, cnow, ccount, ncalls, overlap, hist>>

kavars == <<clock, deadline, nextPing, pinged, lastAct>>

idvars == <<inow, gpc, gnano, ngen, issued>>

qvars == <<qreq, qpc, qprompt, qout, qread>>

gwvars == <<env, ctl, mreq, resp>>

hubvars == <<clients, hubpc, cur, message, todo, send, closed, conn, hpc, rpc, wpc,
             wbuf, wn, active, connected, disconnected, panicked,
             nbcast, enq, wire, regDone, mark, snapFull, snapRoom, snapDeq,
             kavars>>

vars == <<hubvars, rlvars, gwvars, idvars, qvars>>

(***************************************************************************)
(* newHub and the initial state of the sessions.                           *)
(***************************************************************************)
newHub ==
    /\ clients = {}
    /\ hubpc = "select"
    /\ cur = NoClient
    /\ message = Welcome
    /\ todo = {}

HubInit ==
    /\ newHub
    /\ send = [c \in Clients |-> <<>>]
    /\ closed = [c \in Clients |-> FALSE]
    /\ conn = [c \in Clients |-> "none"]
    /\ hpc = [c \in Clients |-> "idle"]
    /\ rpc = [c \in Clients |-> "none"]
    /\ wpc = [c \in Clients |-> "none"]
    /\ wbuf = [c \in Clients |-> <<>>]
    /\ wn = [c \in Clients |-> 0]
    /\ active = 0
    /\ connected = 0
    /\ disconnected = 0
    /\ panicked = FALSE
    /\ nbcast = 0
    /\ enq = [c \in Clients |-> <<>>]
    /\ wire = [c \in Clients |-> <<>>]
    /\ regDone = [c \in Clients |-> -1]
    /\ mark = 0
    /\ snapFull = {}
    /\ snapRoom = [c \in Clients |-> -1]
    /\ snapDeq = [c \in Clients |-> 0]
    /\ clock = 0
    /\ deadline = [c \in Clients |-> NoDeadline]
    /\ nextPing = [c \in Clients |-> 0]
    /\ pinged = [c \in Clients |-> FALSE]
    /\ lastAct = [c \in Clients |-> 0]

\* messages the writer of c has taken off c.send so far
Dequeued(c) == Len(enq[c]) - Len(send[c])

(***************************************************************************)
(* wsHandler (main.go:1171-1195).                                          *)
(***************************************************************************)
\* mutant of HubRecvRegister: wsHandler starts the writer only
HubRecvRegister_NoReader(c) ==
    /\ ~panicked
    /\ UNCHANGED <<rlvars, gwvars, idvars, qvars, clock, pinged>>
    /\ deadline' = [deadline EXCEPT ![c] = clock + PongWait]
    /\ nextPing' = [nextPing EXCEPT ![c] = clock + PingPeriod]
    /\ lastAct' = [lastAct EXCEPT ![c] = clock]
    /\ hubpc = "select"
    /\ hpc[c] = "idle"
    /\ hpc' = [hpc EXCEPT ![c] = "done"]
    /\ conn' = [conn EXCEPT ![c] = "open"]
    /\ send' = [send EXCEPT ![c] = <<>>]
    /\ wpc' = [wpc EXCEPT ![c] = "wait"]
    /\ hubpc' = "register"
    /\ cur' = c
    /\ regDone' = [regDone EXCEPT ![c] = nbcast]
    /\ UNCHANGED <<clients, message, todo, closed, wbuf, wn, rpc,
                   active, connected, disconnected, panicked, nbcast, enq, wire,
                   mark, snapFull, snapRoom, snapDeq>>

\* mutant of HubRecvRegister: readPump sets no read deadline
HubRecvRegister_NoDeadline(c) ==
    /\ ~panicked
    /\ UNCHANGED <<rlvars, gwvars, idvars, qvars, clock, pinged, deadline>>
    /\ nextPing' = [nextPing EXCEPT ![c] = clock + PingPeriod]
    /\ lastAct' = [lastAct EXCEPT ![c] = clock]
    /\ hubpc = "select"
    /\ hpc[c] = "idle"
    /\ hpc' = [hpc EXCEPT ![c] = "done"]
    /\ conn' = [conn EXCEPT ![c] = "open"]
    /\ send' = [send EXCEPT ![c] = <<>>]
    /\ wpc' = [wpc EXCEPT ![c] = "wait"]
    /\ rpc' = [rpc EXCEPT ![c] = "read"]
    /\ hubpc' = "register"
    /\ cur' = c
    /\ regDone' = [regDone EXCEPT ![c] = nbcast]
    /\ UNCHANGED <<clients, message, todo, closed, wbuf, wn,
                   active, connected, disconnected, panicked, nbcast, enq, wire,
                   mark, snapFull, snapRoom, snapDeq>>

\* wsHandler as one step up to its end: the upgrade succeeded, the Client was
\* built with an empty queue, client.hub.register <- client met
\* case client := <-h.register (the channel is unbuffered, so the send returns
\* when the hub takes the client), and both pumps were started: readPump set
\* the read deadline and writePump created its ticker
HubRecvRegister(c) ==
    /\ ~panicked
    /\ UNCHANGED <<rlvars, gwvars, idvars, qvars, clock, pinged>>
    /\ deadline' = [deadline EXCEPT ![c] = clock + PongWait]
    /\ nextPing' = [nextPing EXCEPT ![c] = clock + PingPeriod]
    /\ lastAct' = [lastAct EXCEPT ![c] = clock]
    /\ hubpc = "select"
    /\ hpc[c] = "idle"
    /\ hpc' = [hpc EXCEPT ![c] = "done"]
    /\ conn' = [conn EXCEPT ![c] = "open"]
    /\ send' = [send EXCEPT ![c] = <<>>]
    /\ wpc' = [wpc EXCEPT ![c] = "wait"]
    /\ rpc' = [rpc EXCEPT ![c] = "read"]
    /\ hubpc' = "register"
    /\ cur' = c
    /\ regDone' = [regDone EXCEPT ![c] = nbcast]
    /\ UNCHANGED <<clients, message, todo, closed, wbuf, wn,
                   active, connected, disconnected, panicked, nbcast, enq, wire,
                   mark, snapFull, snapRoom, snapDeq>>

\* the contents a queue can have when its Client reaches the hub: k messages
\* put there by whoever built the Client, up to the capacity of the queue
Prefilled == {[i \in 1..n |-> i] : n \in 0..QueueCap}

\* case client := <-h.register taken on its own: the register channel carries
\* any *Client a sender of the package hands over, here one whose queue
\* already holds q and whose pumps have not been started
HubRecvClient(c, q) ==
    /\ ~panicked
    /\ UNCHANGED <<rlvars, gwvars, idvars, qvars, kavars>>
    /\ hubpc = "select"
    /\ hpc[c] = "idle"
    /\ hpc' = [hpc EXCEPT ![c] = "done"]
    /\ send' = [send EXCEPT ![c] = q]
    /\ enq' = [enq EXCEPT ![c] = q]
    /\ hubpc' = "register"
    /\ cur' = c
    /\ regDone' = [regDone EXCEPT ![c] = nbcast]
    /\ UNCHANGED <<clients, message, todo, closed, conn, rpc, wpc, wbuf, wn,
                   active, connected, disconnected, panicked, nbcast, wire,
                   mark, snapFull, snapRoom, snapDeq>>

(***************************************************************************)
(* Hub.run (main.go:1042-1088).  Receiving a command and executing its     *)
(* case are separate steps: the sender's channel operation returns at the  *)
(* receive, the case body runs afterwards on the hub goroutine.            *)
(***************************************************************************)
\* the send case of a select with default is taken iff the buffer has room
HasRoom(c) == Len(send[c]) < QueueCap

\* mutant of HubRegister: the session enters the registry without a welcome
HubRegister_NoWelcome ==
    /\ ~panicked
    /\ UNCHANGED <<rlvars, gwvars, idvars, qvars, kavars>>
    /\ hubpc = "register"
    /\ active' = active + 1
    /\ connected' = connected + 1
    /\ clients' = clients \cup {cur}
    /\ hubpc' = "select"
    /\ UNCHANGED <<send, enq, closed, panicked>>
    /\ UNCHANGED <<cur, message, todo, conn, hpc, rpc, wpc, wbuf, wn, disconnected,
                   nbcast, wire, regDone, mark, snapFull, snapRoom, snapDeq>>

\* mutant of HubRegister: the welcome is sent with a blocking send, which
\* waits for room in the queue
HubRegister_Blocking ==
    /\ ~panicked
    /\ UNCHANGED <<rlvars, gwvars, idvars, qvars, kavars>>
    /\ hubpc = "register"
    /\ HasRoom(cur)
    /\ active' = active + 1
    /\ connected' = connected + 1
    /\ send' = [send EXCEPT ![cur] = Append(@, Welcome)]
    /\ enq' = [enq EXCEPT ![cur] = Append(@, Welcome)]
    /\ clients' = clients \cup {cur}
    /\ hubpc' = "select"
    /\ UNCHANGED <<closed, panicked>>
    /\ UNCHANGED <<cur, message, todo, conn, hpc, rpc, wpc, wbuf, wn, disconnected,
                   nbcast, wire, regDone, mark, snapFull, snapRoom, snapDeq>>

\* case client := <-h.register (body)
HubRegister ==
    /\ ~panicked
    /\ UNCHANGED <<rlvars, gwvars, idvars, qvars, kavars>>
    /\ hubpc = "register"
    /\ active' = active + 1
    /\ connected' = connected + 1
    /\ IF closed[cur]
       THEN /\ panicked' = TRUE
            /\ clients' = clients \cup {cur}
            /\ UNCHANGED <<send, enq, closed>>
       ELSE IF HasRoom(cur)
       THEN /\ send' = [send EXCEPT ![cur] = Append(@, Welcome)]
            /\ enq' = [enq EXCEPT ![cur] = Append(@, Welcome)]
            /\ clients' = clients \cup {cur}
            /\ UNCHANGED <<closed, panicked>>
       ELSE /\ closed' = [closed EXCEPT ![cur] = TRUE]
            /\ clients' = clients \ {cur}
            /\ UNCHANGED <<send, enq, panicked>>
    /\ hubpc' = "select"
    /\ UNCHANGED <<cur, message, todo, conn, hpc, rpc, wpc, wbuf, wn, disconnected,
                   nbcast, wire, regDone, mark, snapFull, snapRoom, snapDeq>>

\* c.hub.unregister <- c (readPump's deferred function) meets
\* case client := <-h.unregister
HubRecvUnregister(c) ==
    /\ ~panicked
    /\ UNCHANGED <<rlvars, gwvars, idvars, qvars, kavars>>
    /\ hubpc = "select"
    /\ rpc[c] = "unregister"
    /\ rpc' = [rpc EXCEPT ![c] = "close"]
    /\ hubpc' = "unregister"
    /\ cur' = c
    /\ UNCHANGED <<clients, message, todo, send, closed, conn, hpc, wpc, wbuf, wn,
                   active, connected, disconnected, panicked, nbcast, enq, wire,
                   regDone, mark, snapFull, snapRoom, snapDeq>>

\* mutant of HubUnregister: the membership test is dropped
HubUnregister_NoCheck ==
    /\ ~panicked
    /\ UNCHANGED <<rlvars, gwvars, idvars, qvars, kavars>>
    /\ hubpc = "unregister"
    /\ clients' = clients \ {cur}
    /\ closed' = [closed EXCEPT ![cur] = TRUE]
    /\ panicked' = closed[cur]
    /\ active' = active - 1
    /\ disconnected' = disconnected + 1
    /\ hubpc' = "select"
    /\ UNCHANGED <<cur, message, todo, send, conn, hpc, rpc, wpc, wbuf, wn, connected,
                   nbcast, enq, wire, regDone, mark, snapFull, snapRoom, snapDeq>>

\* mutant of HubUnregister: the entry of the map is toggled, so that a
\* session that is not in the registry is put back
HubUnregister_Readd ==
    /\ ~panicked
    /\ UNCHANGED <<rlvars, gwvars, idvars, qvars, kavars>>
    /\ hubpc = "unregister"
    /\ IF cur \in clients
       THEN /\ clients' = clients \ {cur}
            /\ closed' = [closed EXCEPT ![cur] = TRUE]
            /\ panicked' = closed[cur]
            /\ active' = active - 1
            /\ disconnected' = disconnected + 1
       ELSE /\ clients' = clients \cup {cur}
            /\ UNCHANGED <<closed, panicked, active, disconnected>>
    /\ hubpc' = "select"
    /\ UNCHANGED <<cur, message, todo, send, conn, hpc, rpc, wpc, wbuf, wn, connected,
                   nbcast, enq, wire, regDone, mark, snapFull, snapRoom, snapDeq>>

\* mutant of HubUnregister: the hub waits for the writer of the session to
\* have returned before it closes the queue
HubUnregister_WaitWriter ==
    /\ ~panicked
    /\ UNCHANGED <<rlvars, gwvars, idvars, qvars, kavars>>
    /\ hubpc = "unregister"
    /\ cur \in clients => wpc[cur] = "exit"
    /\ IF cur \in clients
       THEN /\ clients' = clients \ {cur}
            /\ closed' = [closed EXCEPT ![cur] = TRUE]
            /\ panicked' = closed[cur]
            /\ active' = active - 1
            /\ disconnected' = disconnected + 1
       ELSE UNCHANGED <<clients, closed, panicked, active, disconnected>>
    /\ hubpc' = "select"
    /\ UNCHANGED <<cur, message, todo, send, conn, hpc, rpc, wpc, wbuf, wn, connected,
                   nbcast, enq, wire, regDone, mark, snapFull, snapRoom, snapDeq>>

\* case client := <-h.unregister (body)
HubUnregister ==
    /\ ~panicked
    /\ UNCHANGED <<rlvars, gwvars, idvars, qvars, kavars>>
    /\ hubpc = "unregister"
    /\ IF cur \in clients
       THEN /\ clients' = clients \ {cur}
            /\ closed' = [closed EXCEPT ![cur] = TRUE]
            /\ panicked' = closed[cur]
            /\ active' = active - 1
            /\ disconnected' = disconnected + 1
       ELSE UNCHANGED <<clients, closed, panicked, active, disconnected>>
    /\ hubpc' = "select"
    /\ UNCHANGED <<cur, message, todo, send, conn, hpc, rpc, wpc, wbuf, wn, connected,
                   nbcast, enq, wire, regDone, mark, snapFull, snapRoom, snapDeq>>

\* mutant of HubRecvBroadcast: the loop leaves one session of the registry out
HubRecvBroadcast_SkipOne ==
    /\ ~panicked
    /\ UNCHANGED <<rlvars, gwvars, idvars, qvars, kavars>>
    /\ hubpc = "select"
    /\ nbcast < MaxBroadcasts
    /\ nbcast' = nbcast + 1
    /\ message' = nbcast + 1
    /\ \E skip \in SUBSET clients :
          /\ Cardinality(skip) = (IF clients = {} THEN 0 ELSE 1)
          /\ todo' = clients \ skip
    /\ hubpc' = IF todo' = {} THEN "select" ELSE "broadcast"
    /\ IF mark = 0 /\ \E c \in clients : Len(send[c]) = QueueCap
       THEN /\ mark' = nbcast + 1
            /\ snapFull' = {c \in clients : Len(send[c]) = QueueCap}
            /\ snapRoom' = [c \in Clients |->
                              IF c \in clients THEN QueueCap - Len(send[c]) ELSE -1]
            /\ snapDeq' = [c \in Clients |-> Dequeued(c)]
       ELSE UNCHANGED <<mark, snapFull, snapRoom, snapDeq>>
    /\ UNCHANGED <<clients, cur, send, closed, conn, hpc, rpc, wpc, wbuf, wn,
                   active, connected, disconnected, panicked, enq, wire, regDone>>

\* a producer's h.broadcast <- message meets case message := <-h.broadcast;
\* the range loop starts over the keys the map holds now
HubRecvBroadcast ==
    /\ ~panicked
    /\ UNCHANGED <<rlvars, gwvars, idvars, qvars, kavars>>
    /\ hubpc = "select"
    /\ nbcast < MaxBroadcasts
    /\ nbcast' = nbcast + 1
    /\ message' = nbcast + 1
    /\ todo' = clients
    /\ hubpc' = IF clients = {} THEN "select" ELSE "broadcast"
    /\ IF mark = 0 /\ \E c \in clients : Len(send[c]) = QueueCap
       THEN /\ mark' = nbcast + 1
            /\ snapFull' = {c \in clients : Len(send[c]) = QueueCap}
            /\ snapRoom' = [c \in Clients |->
                              IF c \in clients THEN QueueCap - Len(send[c]) ELSE -1]
            /\ snapDeq' = [c \in Clients |-> Dequeued(c)]
       ELSE UNCHANGED <<mark, snapFull, snapRoom, snapDeq>>
    /\ UNCHANGED <<clients, cur, send, closed, conn, hpc, rpc, wpc, wbuf, wn,
                   active, connected, disconnected, panicked, enq, wire, regDone>>

\* mutant of HubBroadcastStep: a blocking send, which waits for room
HubBroadcastStep_Blocking(c) ==
    /\ ~panicked
    /\ UNCHANGED <<rlvars, gwvars, idvars, qvars, kavars>>
    /\ hubpc = "broadcast"
    /\ c \in todo
    /\ HasRoom(c)
    /\ send' = [send EXCEPT ![c] = Append(@, message)]
    /\ enq' = [enq EXCEPT ![c] = Append(@, message)]
    /\ todo' = todo \ {c}
    /\ hubpc' = IF todo' = {} THEN "select" ELSE "broadcast"
    /\ UNCHANGED <<closed, clients, active, panicked>>
    /\ UNCHANGED <<cur, message, conn, hpc, rpc, wpc, wbuf, wn, connected, disconnected,
                   nbcast, wire, regDone, mark, snapFull, snapRoom, snapDeq>>

\* mutant of HubBroadcastStep: the message for a full queue is dropped and
\* the session stays in the registry
HubBroadcastStep_KeepFull(c) ==
    /\ ~panicked
    /\ UNCHANGED <<rlvars, gwvars, idvars, qvars, kavars>>
    /\ hubpc = "broadcast"
    /\ c \in todo
    /\ IF HasRoom(c)
       THEN /\ send' = [send EXCEPT ![c] = Append(@, message)]
            /\ enq' = [enq EXCEPT ![c] = Append(@, message)]
       ELSE UNCHANGED <<send, enq>>
    /\ todo' = todo \ {c}
    /\ hubpc' = IF todo' = {} THEN "select" ELSE "broadcast"
    /\ UNCHANGED <<closed, clients, active, panicked>>
    /\ UNCHANGED <<cur, message, conn, hpc, rpc, wpc, wbuf, wn, connected, disconnected,
                   nbcast, wire, regDone, mark, snapFull, snapRoom, snapDeq>>

\* mutant of HubBroadcastStep: the queue of a full session is closed and the
\* session is left in the registry
HubBroadcastStep_NoDelete(c) ==
    /\ ~panicked
    /\ UNCHANGED <<rlvars, gwvars, idvars, qvars, kavars>>
    /\ hubpc = "broadcast"
    /\ c \in todo
    /\ IF closed[c]
       THEN /\ panicked' = TRUE
            /\ UNCHANGED <<send, enq, closed, active>>
       ELSE IF HasRoom(c)
       THEN /\ send' = [send EXCEPT ![c] = Append(@, message)]
            /\ enq' = [enq EXCEPT ![c] = Append(@, message)]
            /\ UNCHANGED <<closed, active, panicked>>
       ELSE /\ closed' = [closed EXCEPT ![c] = TRUE]
            /\ active' = active - 1
            /\ UNCHANGED <<send, enq, panicked>>
    /\ todo' = todo \ {c}
    /\ hubpc' = IF todo' = {} THEN "select" ELSE "broadcast"
    /\ UNCHANGED <<clients, cur, message, conn, hpc, rpc, wpc, wbuf, wn, connected,
                   disconnected, nbcast, wire, regDone, mark, snapFull, snapRoom, snapDeq>>

\* one iteration of for client := range h.clients (main.go:1077-1085)
HubBroadcastStep(c) ==
    /\ ~panicked
    /\ UNCHANGED <<rlvars, gwvars, idvars, qvars, kavars>>
    /\ hubpc = "broadcast"
    /\ c \in todo
    /\ IF closed[c]
       THEN /\ panicked' = TRUE
            /\ UNCHANGED <<send, enq, closed, clients, active>>
       ELSE IF HasRoom(c)
       THEN /\ send' = [send EXCEPT ![c] = Append(@, message)]
            /\ enq' = [enq EXCEPT ![c] = Append(@, message)]
            /\ UNCHANGED <<closed, clients, active, panicked>>
       ELSE /\ closed' = [closed EXCEPT ![c] = TRUE]
            /\ clients' = clients \ {c}
            /\ active' = active - 1
            /\ UNCHANGED <<send, enq, panicked>>
    /\ todo' = todo \ {c}
    /\ hubpc' = IF todo' = {} THEN "select" ELSE "broadcast"
    /\ UNCHANGED <<cur, message, conn, hpc, rpc, wpc, wbuf, wn, connected, disconnected,
                   nbcast, wire, regDone, mark, snapFull, snapRoom, snapDeq>>

(***************************************************************************)
(* Client.readPump (main.go:1090-1121).                                    *)
(***************************************************************************)
\* c.conn.ReadMessage returns an error while the transport is open: peer
\* close, protocol error or read deadline; the loop breaks
ReaderTransportError(c) ==
    /\ ~panicked
    /\ UNCHANGED <<rlvars, gwvars, idvars, qvars, kavars>>
    /\ rpc[c] = "read"
    /\ conn[c] = "open"
    /\ rpc' = [rpc EXCEPT ![c] = "unregister"]
    /\ UNCHANGED <<clients, hubpc, cur, message, todo, send, closed, conn, hpc, wpc,
                   wbuf, wn, active, connected, disconnected, panicked, nbcast, enq,
                   wire, regDone, mark, snapFull, snapRoom, snapDeq>>

\* c.conn.ReadMessage fails because writePump closed the connection
ReaderConnClosed(c) ==
    /\ ~panicked
    /\ UNCHANGED <<rlvars, gwvars, idvars, qvars, kavars>>
    /\ rpc[c] = "read"
    /\ conn[c] = "closed"
    /\ rpc' = [rpc EXCEPT ![c] = "unregister"]
    /\ UNCHANGED <<clients, hubpc, cur, message, todo, send, closed, conn, hpc, wpc,
                   wbuf, wn, active, connected, disconnected, panicked, nbcast, enq,
                   wire, regDone, mark, snapFull, snapRoom, snapDeq>>

\* mutant of ReaderClose: the deferred function notifies the hub once more
ReaderClose_Renotify(c) ==
    /\ ~panicked
    /\ UNCHANGED <<rlvars, gwvars, idvars, qvars, kavars>>
    /\ rpc[c] = "close"
    /\ rpc' = [rpc EXCEPT ![c] = "unregister"]
    /\ conn' = [conn EXCEPT ![c] = "closed"]
    /\ UNCHANGED <<clients, hubpc, cur, message, todo, send, closed, hpc, wpc,
                   wbuf, wn, active, connected, disconnected, panicked, nbcast, enq,
                   wire, regDone, mark, snapFull, snapRoom, snapDeq>>

\* the rest of the deferred function: c.conn.Close()
ReaderClose(c) ==
    /\ ~panicked
    /\ UNCHANGED <<rlvars, gwvars, idvars, qvars, kavars>>
    /\ rpc[c] = "close"
    /\ rpc' = [rpc EXCEPT ![c] = "exit"]
    /\ conn' = [conn EXCEPT ![c] = "closed"]
    /\ UNCHANGED <<clients, hubpc, cur, message, todo, send, closed, hpc, wpc,
                   wbuf, wn, active, connected, disconnected, panicked, nbcast, enq,
                   wire, regDone, mark, snapFull, snapRoom, snapDeq>>

(***************************************************************************)
(* Client.writePump (main.go:1123-1164).                                   *)
(***************************************************************************)
\* mutant of WriterRecv: the newest message of the queue is taken first
WriterRecv_Lifo(c) ==
    /\ ~panicked
    /\ UNCHANGED <<rlvars, gwvars, idvars, qvars, kavars>>
    /\ wpc[c] = "wait"
    /\ send[c] # <<>>
    /\ send' = [send EXCEPT ![c] = SubSeq(@, 1, Len(@) - 1)]
    /\ wbuf' = [wbuf EXCEPT ![c] = <<send[c][Len(send[c])]>>]
    /\ wpc' = [wpc EXCEPT ![c] = "next"]
    /\ UNCHANGED <<clients, hubpc, cur, message, todo, closed, conn, hpc, rpc, wn,
                   active, connected, disconnected, panicked, nbcast, enq, wire,
                   regDone, mark, snapFull, snapRoom, snapDeq>>

\* case message, ok := <-c.send with ok: the head of the queue is taken
WriterRecv(c) ==
    /\ ~panicked
    /\ UNCHANGED <<rlvars, gwvars, idvars, qvars, kavars>>
    /\ wpc[c] = "wait"
    /\ send[c] # <<>>
    /\ send' = [send EXCEPT ![c] = Tail(@)]
    /\ wbuf' = [wbuf EXCEPT ![c] = <<Head(send[c])>>]
    /\ wpc' = [wpc EXCEPT ![c] = "next"]
    /\ UNCHANGED <<clients, hubpc, cur, message, todo, closed, conn, hpc, rpc, wn,
                   active, connected, disconnected, panicked, nbcast, enq, wire,
                   regDone, mark, snapFull, snapRoom, snapDeq>>

\* mutant of WriterRecvClosed: writePump returns without closing the
\* connection
WriterRecvClosed_KeepOpen(c) ==
    /\ ~panicked
    /\ UNCHANGED <<rlvars, gwvars, idvars, qvars, kavars>>
    /\ wpc[c] = "wait"
    /\ send[c] = <<>>
    /\ closed[c]
    /\ wire' = [wire EXCEPT ![c] = IF conn[c] = "open" THEN Append(@, CloseMessage) ELSE @]
    /\ wpc' = [wpc EXCEPT ![c] = "exit"]
    /\ UNCHANGED <<clients, hubpc, cur, message, todo, send, closed, hpc, rpc, wbuf, wn,
                   active, connected, disconnected, panicked, nbcast, enq, conn,
                   regDone, mark, snapFull, snapRoom, snapDeq>>

\* case message, ok := <-c.send with !ok (closed and drained): the close
\* frame is written and the deferred c.conn.Close() runs
WriterRecvClosed(c) ==
    /\ ~panicked
    /\ UNCHANGED <<rlvars, gwvars, idvars, qvars, kavars>>
    /\ wpc[c] = "wait"
    /\ send[c] = <<>>
    /\ closed[c]
    /\ wire' = [wire EXCEPT ![c] = IF conn[c] = "open" THEN Append(@, CloseMessage) ELSE @]
    /\ wpc' = [wpc EXCEPT ![c] = "exit"]
    /\ conn' = [conn EXCEPT ![c] = "closed"]
    /\ UNCHANGED <<clients, hubpc, cur, message, todo, send, closed, hpc, rpc, wbuf, wn,
                   active, connected, disconnected, panicked, nbcast, enq,
                   regDone, mark, snapFull, snapRoom, snapDeq>>

\* mutant of WriterNextWriter: the batching loop runs once more than the
\* queue holds messages (i <= n)
WriterNextWriter_OneMore(c) ==
    /\ ~panicked
    /\ UNCHANGED <<rlvars, gwvars, idvars, qvars, kavars>>
    /\ wpc[c] = "next"
    /\ wn' = [wn EXCEPT ![c] = Len(send[c]) + 1]
    /\ wpc' = [wpc EXCEPT ![c] = "batch"]
    /\ UNCHANGED <<clients, hubpc, cur, message, todo, send, closed, conn, hpc, rpc, wbuf,
                   active, connected, disconnected, panicked, nbcast, enq, wire,
                   regDone, mark, snapFull, snapRoom, snapDeq>>

\* c.conn.NextWriter succeeds, w.Write(message), n := len(c.send)
WriterNextWriter(c) ==
    /\ ~panicked
    /\ UNCHANGED <<rlvars, gwvars, idvars, qvars, kavars>>
    /\ wpc[c] = "next"
    /\ wn' = [wn EXCEPT ![c] = Len(send[c])]
    /\ wpc' = [wpc EXCEPT ![c] = "batch"]
    /\ UNCHANGED <<clients, hubpc, cur, message, todo, send, closed, conn, hpc, rpc, wbuf,
                   active, connected, disconnected, panicked, nbcast, enq, wire,
                   regDone, mark, snapFull, snapRoom, snapDeq>>

\* c.conn.NextWriter fails: writePump returns, the deferred c.conn.Close() runs
WriterNextWriterError(c) ==
    /\ ~panicked
    /\ UNCHANGED <<rlvars, gwvars, idvars, qvars, kavars>>
    /\ wpc[c] = "next"
    /\ wpc' = [wpc EXCEPT ![c] = "exit"]
    /\ wbuf' = [wbuf EXCEPT ![c] = <<>>]
    /\ conn' = [conn EXCEPT ![c] = "closed"]
    /\ UNCHANGED <<clients, hubpc, cur, message, todo, send, closed, hpc, rpc, wn,
                   active, connected, disconnected, panicked, nbcast, enq, wire,
                   regDone, mark, snapFull, snapRoom, snapDeq>>

\* one iteration of the batching loop: w.Write('\n'); w.Write(<-c.send)
WriterBatchStep(c) ==
    /\ ~panicked
    /\ UNCHANGED <<rlvars, gwvars, idvars, qvars, kavars>>
    /\ wpc[c] = "batch"
    /\ wn[c] > 0
    /\ send[c] # <<>>
    /\ send' = [send EXCEPT ![c] = Tail(@)]
    /\ wbuf' = [wbuf EXCEPT ![c] = Append(@, Head(send[c]))]
    /\ wn' = [wn EXCEPT ![c] = @ - 1]
    /\ UNCHANGED <<clients, hubpc, cur, message, todo, closed, conn, hpc, rpc, wpc,
                   active, connected, disconnected, panicked, nbcast, enq, wire,
                   regDone, mark, snapFull, snapRoom, snapDeq>>

\* w.Close() succeeds: the frame goes out as one transport message
WriterFlush(c) ==
    /\ ~panicked
    /\ UNCHANGED <<rlvars, gwvars, idvars, qvars, kavars>>
    /\ wpc[c] = "batch"
    /\ wn[c] = 0
    /\ conn[c] = "open"
    /\ wire' = [wire EXCEPT ![c] = @ \o wbuf[c]]
    /\ wbuf' = [wbuf EXCEPT ![c] = <<>>]
    /\ wpc' = [wpc EXCEPT ![c] = "wait"]
    /\ UNCHANGED <<clients, hubpc, cur, message, todo, send, closed, conn, hpc, rpc, wn,
                   active, connected, disconnected, panicked, nbcast, enq,
                   regDone, mark, snapFull, snapRoom, snapDeq>>

\* w.Close() fails: the frame is lost, writePump returns and closes the
\* connection
WriterFlushError(c) ==
    /\ ~panicked
    /\ UNCHANGED <<rlvars, gwvars, idvars, qvars, kavars>>
    /\ wpc[c] = "batch"
    /\ wn[c] = 0
    /\ wpc' = [wpc EXCEPT ![c] = "exit"]
    /\ wbuf' = [wbuf EXCEPT ![c] = <<>>]
    /\ conn' = [conn EXCEPT ![c] = "closed"]
    /\ UNCHANGED <<clients, hubpc, cur, message, todo, send, closed, hpc, rpc, wn,
                   active, connected, disconnected, panicked, nbcast, enq, wire,
                   regDone, mark, snapFull, snapRoom, snapDeq>>

\* case <-ticker.C: the ping write fails, writePump returns and closes the
\* connection (a successful ping changes no state of the model)
WriterPingError(c) ==
    /\ ~panicked
    /\ UNCHANGED <<rlvars, gwvars, idvars, qvars, kavars>>
    /\ wpc[c] = "wait"
    /\ wpc' = [wpc EXCEPT ![c] = "exit"]
    /\ conn' = [conn EXCEPT ![c] = "closed"]
    /\ UNCHANGED <<clients, hubpc, cur, message, todo, send, closed, hpc, rpc, wbuf, wn,
                   active, connected, disconnected, panicked, nbcast, enq, wire,
                   regDone, mark, snapFull, snapRoom, snapDeq>>

(***************************************************************************)
(* The keepalive: the read deadline of readPump (main.go:1097-1101) and    *)
(* the ticker of writePump (main.go:1124, 1157-1161) on a common clock.    *)
(***************************************************************************)
\* the frame of a keepalive step of session c
KAFrame ==
    /\ ~panicked
    /\ UNCHANGED <<rlvars, gwvars, idvars, qvars>>
    /\ UNCHANGED <<clients, hubpc, cur, message, todo, send, closed, conn, hpc, rpc, wpc,
                   wbuf, wn, active, connected, disconnected, panicked, nbcast, enq,
                   wire, regDone, mark, snapFull, snapRoom, snapDeq>>

\* c.conn.ReadMessage fails because the read deadline has passed: the error
\* is returned like any other one and the loop breaks
ReaderDeadline(c) ==
    /\ deadline[c] # NoDeadline
    /\ clock >= deadline[c]
    /\ ReaderTransportError(c)

\* the peer answers a ping: ReadMessage runs the pong handler, which sets the
\* read deadline anew, and goes on reading
ReaderPong(c) ==
    /\ KAFrame
    /\ rpc[c] = "read"
    /\ conn[c] = "open"
    /\ pinged[c]
    /\ pinged' = [pinged EXCEPT ![c] = FALSE]
    /\ deadline' = [deadline EXCEPT ![c] = clock + PongWait]
    /\ lastAct' = [lastAct EXCEPT ![c] = clock]
    /\ UNCHANGED <<clock, nextPing>>

\* the peer sends a message: ReadMessage returns it, the loop handles it
\* (main.go:1112-1119) and reads again; the read deadline stays as it is
ReaderData(c) ==
    /\ KAFrame
    /\ rpc[c] = "read"
    /\ conn[c] = "open"
    /\ lastAct[c] < clock
    /\ lastAct' = [lastAct EXCEPT ![c] = clock]
    /\ UNCHANGED <<clock, deadline, nextPing, pinged>>

\* case <-ticker.C with a successful write of the ping
WriterPing(c) ==
    /\ KAFrame
    /\ wpc[c] = "wait"
    /\ conn[c] = "open"
    /\ clock >= nextPing[c]
    /\ nextPing' = [nextPing EXCEPT ![c] = @ + PingPeriod]
    /\ pinged' = [pinged EXCEPT ![c] = TRUE]
    /\ UNCHANGED <<clock, deadline, lastAct>>

\* a step that takes no time is due: the hub has a case to execute, a reader
\* has an unregister to hand over, a read has an error to return, or the
\* ticker of a waiting writer has fired
Urgent ==
    \/ hubpc # "select"
    \/ \E c \in Clients :
          \/ rpc[c] = "unregister"
          \/ /\ rpc[c] = "read"
             /\ \/ conn[c] = "closed"
                \/ deadline[c] # NoDeadline /\ clock >= deadline[c]
          \/ wpc[c] = "wait" /\ clock >= nextPing[c]

\* a keepalive tick passes: the steps of the goroutines take no time on the
\* scale of the ticker and of the deadlines, so none of them is due
KATick ==
    /\ ~panicked
    /\ clock < MaxClock
    /\ ~Urgent
    /\ clock' = clock + 1
    /\ UNCHANGED <<deadline, nextPing, pinged, lastAct>>
    /\ UNCHANGED <<rlvars, gwvars, idvars, qvars>>
    /\ UNCHANGED <<clients, hubpc, cur, message, todo, send, closed, conn, hpc, rpc, wpc,
                   wbuf, wn, active, connected, disconnected, panicked, nbcast, enq,
                   wire, regDone, mark, snapFull, snapRoom, snapDeq>>

\* the sessions and the hub under the keepalive clock; the writers write
\* pings only
KANext ==
    \/ KATick
    \/ \E c \in Clients : HubRecvRegister(c)
    \/ HubRegister
    \/ \E c \in Clients : HubRecvUnregister(c)
    \/ HubUnregister
    \/ \E c \in Clients : ReaderTransportError(c)
    \/ \E c \in Clients : ReaderDeadline(c)
    \/ \E c \in Clients : ReaderPong(c)
    \/ \E c \in Clients : ReaderData(c)
    \/ \E c \in Clients : ReaderConnClosed(c)
    \/ \E c \in Clients : ReaderClose(c)
    \/ \E c \in Clients : WriterPing(c)
    \/ \E c \in Clients : WriterPingError(c)

HubNext ==
    \/ \E c \in Clients : HubRecvRegister(c)
    \/ HubRegister
    \/ \E c \in Clients : HubRecvUnregister(c)
    \/ HubUnregister
    \/ HubRecvBroadcast
    \/ \E c \in Clients : HubBroadcastStep(c)
    \/ \E c \in Clients : ReaderTransportError(c)
    \/ \E c \in Clients : ReaderConnClosed(c)
    \/ \E c \in Clients : ReaderClose(c)
    \/ \E c \in Clients : WriterRecv(c)
    \/ \E c \in Clients : WriterRecvClosed(c)
    \/ \E c \in Clients : WriterNextWriter(c)
    \/ \E c \in Clients : WriterNextWriterError(c)
    \/ \E c \in Clients : WriterBatchStep(c)
    \/ \E c \in Clients : WriterFlush(c)
    \/ \E c \in Clients : WriterFlushError(c)
    \/ \E c \in Clients : WriterPingError(c)


(***************************************************************************)
(* The rate limiter: RateLimiter.IsAllowed (rate_limiter.go:48-83) against *)
(* a Redis server shared by concurrent callers.                            *)
(***************************************************************************)
Callers == {1, 2}
Users == {"", "alice"}
NoTTL == -1

\* the clock starts late enough for now - window to be positive
StartTime == 2 * Window

\* if userID == "" { userID = "anonymous" }
Resolve(u) == IF u = "" THEN "anonymous" ELSE u

\* mutant of Key: one record for every identity
Key_Shared(u) == "rate_limit:"

\* key := fmt.Sprintf("rate_limit:%s", userID)
Key(u) == "rate_limit:" \o Resolve(u)

\* the requests the gateway receives: the X-User-ID header ("" when absent)
\* and r.RemoteAddr, which the server sets to the peer's address
Requests ==
    {[header |-> "alice", addr |-> "10.0.0.1:4000"],
     [header |-> "", addr |-> "10.0.0.1:4000"],
     [header |-> "", addr |-> "10.0.0.2:4000"]}
NoRequest == [header |-> "", addr |-> ""]

\* userID := r.Header.Get("X-User-ID"); if userID == "" { userID = r.RemoteAddr }
MiddlewareUserID(r) == IF r.header = "" THEN r.addr ELSE r.header

Keys == {Key(u) : u \in Users \cup {MiddlewareUserID(r) : r \in Requests}}

\* float64(t) for an int64 t beyond 2^53: the nearest multiple of the
\* spacing, ties to the even multiple
Float64(t) ==
    LET q == t \div Ulp
        r == t % Ulp
    IN  IF 2 * r < Ulp THEN q * Ulp
        ELSE IF 2 * r > Ulp THEN (q + 1) * Ulp
        ELSE IF q % 2 = 0 THEN q * Ulp ELSE (q + 1) * Ulp

\* windowStart := now.Add(-rl.window)
WindowStart(t) == t - Window

\* the store treats a key past its expiry as absent
Expired(k) == ttl[k] # NoTTL /\ now >= ttl[k]
LiveSet(k) == IF Expired(k) THEN {} ELSE zset[k]
LiveTTL(k) == IF Expired(k) THEN NoTTL ELSE ttl[k]

\* the members ZREMRANGEBYSCORE key 0 max leaves: both ends are inclusive
ZRemRangeByScore(set, max) == {m \in set : ~(0 <= Float64(m) /\ Float64(m) <= max)}

\* the record of a completed call: its identity and what it returned, with
\* the clock reading and the count of a call that returned without error
Done(p, allowed, err) ==
    [user |-> cuser[p], ts |-> IF err THEN 0 ELSE cnow[p],
     count |-> IF err THEN 0 ELSE ccount[p], allowed |-> allowed, err |-> err]

(***************************************************************************)
(* NewRateLimiter (rate_limiter.go:20-46) and main (main.go:147-150).      *)
(***************************************************************************)
\* longest value of RATE_LIMIT considered, and the characters it is made of
MaxEnvLen == 3
EnvChars == {"-", "0", "3", "x"}
EnvValues == UNION {[1..n -> EnvChars] : n \in 0..MaxEnvLen}

Digits == <<"0", "1", "2", "3", "4", "5", "6", "7", "8", "9">>
IsDigit(ch) == \E i \in 1..10 : Digits[i] = ch
DigitValue(ch) == (CHOOSE i \in 1..10 : Digits[i] = ch) - 1

\* the value of a string of decimal digits
RECURSIVE DecValue(_)
DecValue(ds) ==
    IF ds = <<>> THEN 0
    ELSE 10 * DecValue(SubSeq(ds, 1, Len(ds) - 1)) + DigitValue(ds[Len(ds)])

\* strconv.Atoi: an optional sign followed by at least one decimal digit,
\* anything else is an error
Atoi(str) ==
    LET signed == str # <<>> /\ str[1] \in {"+", "-"}
        ds == IF signed THEN Tail(str) ELSE str
    IN  IF ds = <<>> \/ \E i \in 1..Len(ds) : ~IsDigit(ds[i])
        THEN [err |-> TRUE, val |-> 0]
        ELSE [err |-> FALSE,
              val |-> IF signed /\ str[1] = "-" THEN 0 - DecValue(ds) ELSE DecValue(ds)]

\* time.Minute in seconds, and limit := 60
WindowSeconds == 60
DefaultLimit == 60

NoController == [limit |-> 0, window |-> 0]

\* NewRateLimiter with RATE_LIMIT = e (os.Getenv gives "" when it is unset):
\* the controller it returns
NewRateLimiter(e) ==
    [limit |-> IF e # <<>> /\ ~Atoi(e).err THEN Atoi(e).val ELSE DefaultLimit,
     window |-> WindowSeconds]

\* the literals of Middleware
RetryAfter == 60
StatusTooManyRequests == 429
StatusInternalServerError == 500

\* mutant of MiddlewareResponse: a refused request gets no retry hint
MiddlewareResponse_NoRetry(allowed, err) ==
    IF err THEN [status |-> StatusInternalServerError, retry |-> 0, served |-> FALSE]
    ELSE IF ~allowed THEN [status |-> StatusTooManyRequests, retry |-> 0, served |-> FALSE]
    ELSE [status |-> 0, retry |-> 0, served |-> TRUE]

\* mutant of MiddlewareResponse: a store failure is answered like a refusal
MiddlewareResponse_ErrAsDenied(allowed, err) ==
    IF ~allowed THEN [status |-> StatusTooManyRequests, retry |-> RetryAfter, served |-> FALSE]
    ELSE [status |-> 0, retry |-> 0, served |-> TRUE]

\* what Middleware does with the result of IsAllowed (rate_limiter.go:99-111):
\* the status it writes (0: none, the wrapped handler answers), the
\* Retry-After header in seconds (0: not set), and whether next.ServeHTTP ran
MiddlewareResponse(allowed, err) ==
    IF err THEN [status |-> StatusInternalServerError, retry |-> 0, served |-> FALSE]
    ELSE IF ~allowed
    THEN [status |-> StatusTooManyRequests, retry |-> RetryAfter, served |-> FALSE]
    ELSE [status |-> 0, retry |-> 0, served |-> TRUE]

\* IsAllowed returns to its caller: a direct caller keeps the result, the
\* Middleware invocation of caller p answers its request
Respond(p, allowed, err) ==
    IF mreq[p] = NoRequest
    THEN UNCHANGED <<mreq, resp>>
    ELSE /\ mreq' = [mreq EXCEPT ![p] = NoRequest]
         /\ resp' = resp \cup {[req |-> mreq[p], allowed |-> allowed, err |-> err,
                                out |-> MiddlewareResponse(allowed, err)]}

\* the locals of a call that has returned
Return(p) ==
    /\ cpc' = [cpc EXCEPT ![p] = "idle"]
    /\ cuser' = [cuser EXCEPT ![p] = ""]
    /\ cnow' = [cnow EXCEPT ![p] = 0]
    /\ ccount' = [ccount EXCEPT ![p] = 0]

RLInit ==
    /\ now = StartTime
    /\ zset = [k \in Keys |-> {}]
    /\ ttl = [k \in Keys |-> NoTTL]
    /\ cpc = [p \in Callers |-> "idle"]
    /\ cuser = [p \in Callers |-> ""]
    /\ cnow = [p \in Callers |-> 0]
    /\ ccount = [p \in Callers |-> 0]
    /\ ncalls = 0
    /\ overlap = FALSE
    /\ hist = EmptyBag

\* the gateway with no request being served
GWInit ==
    /\ mreq = [p \in Callers |-> NoRequest]
    /\ resp = {}

\* time passes, as long as a call is running or is still to be made
Tick ==
    /\ now < StartTime + MaxTicks
    /\ ncalls < MaxCalls \/ \E p \in Callers : cpc[p] # "idle"
    /\ now' = now + 1
    /\ UNCHANGED <<zset, ttl, cpc, cuser, cnow, ccount, ncalls, overlap, hist>>
    /\ UNCHANGED <<hubvars, idvars, qvars, gwvars>>

\* IsAllowed is entered: the key is built, the clock is read and the four
\* commands are queued on the pipeline (rate_limiter.go:48-74); the callers
\* being interchangeable, a new call takes the lowest free caller
IsAllowedBegin(p, u) ==
    /\ cpc[p] = "idle"
    /\ \A q \in Callers : cpc[q] = "idle" => p <= q
    /\ ncalls < MaxCalls
    /\ ncalls' = ncalls + 1
    /\ cuser' = [cuser EXCEPT ![p] = u]
    /\ cnow' = [cnow EXCEPT ![p] = now]
    /\ ccount' = [ccount EXCEPT ![p] = 0]
    /\ overlap' = (overlap \/ \E q \in Callers : cpc[q] # "idle")
    /\ cpc' = [cpc EXCEPT ![p] = "zrem"]
    /\ UNCHANGED <<now, zset, ttl, hist>>
    /\ UNCHANGED <<hubvars, idvars, qvars, gwvars>>

\* Middleware is entered with request r: the userID is taken from the header
\* or from r.RemoteAddr and IsAllowed is called with it
\* (rate_limiter.go:91-99, then 48-74).  The requests are served one after
\* the other: what Middleware does with a request depends on the request and
\* on the result of its own IsAllowed call only, and calls running
\* concurrently are the subject of SpecRL
MiddlewareBegin(p, r) ==
    /\ \A q \in Callers : cpc[q] = "idle" /\ p <= q
    /\ ncalls < MaxCalls
    /\ ncalls' = ncalls + 1
    /\ mreq' = [mreq EXCEPT ![p] = r]
    /\ cuser' = [cuser EXCEPT ![p] = MiddlewareUserID(r)]
    /\ cnow' = [cnow EXCEPT ![p] = now]
    /\ ccount' = [ccount EXCEPT ![p] = 0]
    /\ overlap' = (overlap \/ \E q \in Callers : cpc[q] # "idle")
    /\ cpc' = [cpc EXCEPT ![p] = "zrem"]
    /\ UNCHANGED <<now, zset, ttl, hist>>
    /\ UNCHANGED <<hubvars, idvars, qvars, env, ctl, resp>>

\* the store executes ZREMRANGEBYSCORE key 0 float64(windowStart): a set left
\* empty is deleted with its expiry
PipeZRemRangeByScore(p) ==
    /\ cpc[p] = "zrem"
    /\ LET k == Key(cuser[p])
           left == ZRemRangeByScore(LiveSet(k), Float64(WindowStart(cnow[p])))
       IN  /\ zset' = [zset EXCEPT ![k] = left]
           /\ ttl' = [ttl EXCEPT ![k] = IF left = {} THEN NoTTL ELSE LiveTTL(k)]
    /\ cpc' = [cpc EXCEPT ![p] = "zcard"]
    /\ UNCHANGED <<now, cuser, cnow, ccount, ncalls, overlap, hist>>
    /\ UNCHANGED <<hubvars, idvars, qvars, gwvars>>

\* the store executes ZCARD key
PipeZCard(p) ==
    /\ cpc[p] = "zcard"
    /\ ccount' = [ccount EXCEPT ![p] = Cardinality(LiveSet(Key(cuser[p])))]
    /\ cpc' = [cpc EXCEPT ![p] = "zadd"]
    /\ UNCHANGED <<now, zset, ttl, cuser, cnow, ncalls, overlap, hist>>
    /\ UNCHANGED <<hubvars, idvars, qvars, gwvars>>

\* the store executes ZADD key score member: the member is the decimal
\* spelling of now.UnixNano(), so a timestamp already in the set is not added
\* a second time; a set created here has no expiry
PipeZAdd(p) ==
    /\ cpc[p] = "zadd"
    /\ LET k == Key(cuser[p])
       IN  /\ zset' = [zset EXCEPT ![k] = LiveSet(k) \cup {cnow[p]}]
           /\ ttl' = [ttl EXCEPT ![k] = LiveTTL(k)]
    /\ cpc' = [cpc EXCEPT ![p] = "expire"]
    /\ UNCHANGED <<now, cuser, cnow, ccount, ncalls, overlap, hist>>
    /\ UNCHANGED <<hubvars, idvars, qvars, gwvars>>

\* mutant of PipeExpire: the comparison of rate_limiter.go:82 lets a count
\* equal to the limit through
PipeExpire_OffByOne(p) ==
    /\ cpc[p] = "expire"
    /\ LET k == Key(cuser[p])
       IN  /\ ttl' = [ttl EXCEPT ![k] = IF LiveSet(k) = {} THEN NoTTL ELSE now + Window]
           /\ zset' = [zset EXCEPT ![k] = LiveSet(k)]
    /\ hist' = hist (+) SetToBag({Done(p, ccount[p] <= Limit, FALSE)})
    /\ Respond(p, ccount[p] <= Limit, FALSE)
    /\ Return(p)
    /\ UNCHANGED <<now, ncalls, overlap>>
    /\ UNCHANGED <<hubvars, idvars, qvars, env, ctl>>

\* the store executes EXPIRE key window, pipe.Exec returns without error
\* and IsAllowed returns count < int64(rl.limit) (rate_limiter.go:74-82)
PipeExpire(p) ==
    /\ cpc[p] = "expire"
    /\ LET k == Key(cuser[p])
       IN  /\ ttl' = [ttl EXCEPT ![k] = IF LiveSet(k) = {} THEN NoTTL ELSE now + Window]
           /\ zset' = [zset EXCEPT ![k] = LiveSet(k)]
    /\ hist' = hist (+) SetToBag({Done(p, ccount[p] < Limit, FALSE)})
    /\ Respond(p, ccount[p] < Limit, FALSE)
    /\ Return(p)
    /\ UNCHANGED <<now, ncalls, overlap>>
    /\ UNCHANGED <<hubvars, idvars, qvars, env, ctl>>

\* pipe.Exec returns an error (store unreachable, connection lost): the
\* commands not yet executed are dropped and IsAllowed returns (false, err)
\* (rate_limiter.go:76-79)
PipeExecError(p) ==
    /\ cpc[p] \in {"zrem", "zcard", "zadd", "expire"}
    /\ hist' = hist (+) SetToBag({Done(p, FALSE, TRUE)})
    /\ Respond(p, FALSE, TRUE)
    /\ Return(p)
    /\ UNCHANGED <<now, zset, ttl, ncalls, overlap>>
    /\ UNCHANGED <<hubvars, idvars, qvars, env, ctl>>

RLNext ==
    \/ Tick
    \/ \E p \in Callers, u \in Users : IsAllowedBegin(p, u)
    \/ \E p \in Callers : PipeZRemRangeByScore(p)
    \/ \E p \in Callers : PipeZCard(p)
    \/ \E p \in Callers : PipeZAdd(p)
    \/ \E p \in Callers : PipeExpire(p)
    \/ \E p \in Callers : PipeExecError(p)

\* rateLimiter := NewRateLimiter() in main
Main ==
    /\ ctl = NoController
    /\ ctl' = NewRateLimiter(env)
    /\ UNCHANGED <<hubvars, idvars, qvars, rlvars, env, mreq, resp>>

GWNext ==
    \/ Tick
    \/ \E p \in Callers, r \in Requests : MiddlewareBegin(p, r)
    \/ \E p \in Callers : PipeZRemRangeByScore(p)
    \/ \E p \in Callers : PipeZCard(p)
    \/ \E p \in Callers : PipeZAdd(p)
    \/ \E p \in Callers : PipeExpire(p)
    \/ \E p \in Callers : PipeExecError(p)

(***************************************************************************)
(* generateClientID (mcp-server/main.go:1166-1169).                        *)
(***************************************************************************)
\* nanoseconds in a second and the modulus of nano%100000, scaled
SecondNanos == 4
IdModulus == 2
\* the last instant of the clock and the number of calls of a behaviour
MaxInstant == 5
MaxIds == 2

\* fmt.Sprintf("%d", n) for n >= 0, as characters
RECURSIVE Decimal(_)
Decimal(n) ==
    IF n < 10 THEN <<Digits[n + 1]>>
    ELSE Decimal(n \div 10) \o <<Digits[(n % 10) + 1]>>

\* time.Time.Format("20060102150405") at instant t: the digits of the second
\* t falls in, at a fixed width
Format(t) ==
    LET d == Decimal(t \div SecondNanos)
    IN  IF Len(d) < 2 THEN <<"0">> \o d ELSE d

\* the id built from the first clock reading nano and the second one t
ClientID(nano, t) == Format(t) \o <<"_">> \o Decimal(nano % IdModulus)

\* the clock of generateClientID advances
IdTick ==
    /\ inow < MaxInstant
    /\ inow' = inow + 1
    /\ UNCHANGED <<gpc, gnano, ngen, issued>>
    /\ UNCHANGED <<hubvars, rlvars, gwvars, qvars>>

\* nano := time.Now().UnixNano()
GenRead ==
    /\ gpc = "idle"
    /\ ngen < MaxIds
    /\ ngen' = ngen + 1
    /\ gnano' = inow
    /\ gpc' = "format"
    /\ UNCHANGED <<inow, issued>>
    /\ UNCHANGED <<hubvars, rlvars, gwvars, qvars>>

\* return time.Now().Format("20060102150405") + "_" + fmt.Sprintf("%d", nano%100000)
GenFormat ==
    /\ gpc = "format"
    /\ issued' = issued \cup {[at |-> gnano, id |-> ClientID(gnano, inow)]}
    /\ gpc' = "idle"
    /\ gnano' = 0
    /\ UNCHANGED <<inow, ngen>>
    /\ UNCHANGED <<hubvars, rlvars, gwvars, qvars>>

IdNext == IdTick \/ GenRead \/ GenFormat

(***************************************************************************)
(* queryHandler (api-gateway/main.go:112-140).                             *)
(***************************************************************************)
\* longest request body considered, in tokens
MaxBodyLen == 4

\* the tokens of a body: the braces of an object, a member "prompt" with a
\* non-empty and with an empty string, a number, and a character no JSON
\* text contains
PromptHi == "\"prompt\":\"hi\""
PromptEmpty == "\"prompt\":\"\""
BodyTokens == {"{", "}", PromptHi, PromptEmpty, "7", "x"}
Bodies == UNION {[1..n -> BodyTokens] : n \in 0..MaxBodyLen}
Methods == {"POST", "GET"}

\* the string a member token gives req.Prompt
PromptOf(tok) == IF tok = PromptHi THEN "hi" ELSE ""

\* json.NewDecoder(r.Body).Decode(&req) on a zero QueryRequest: the decoder
\* reads the first JSON value of the stream and stops there; an empty stream,
\* a text that is no JSON value and a value that is not an object are errors
Decode(body) ==
    IF body = <<>> THEN [err |-> TRUE, prompt |-> ""]
    ELSE IF body[1] # "{" THEN [err |-> TRUE, prompt |-> ""]
    ELSE IF Len(body) >= 2 /\ body[2] = "}" THEN [err |-> FALSE, prompt |-> ""]
    ELSE IF Len(body) >= 3 /\ body[2] \in {PromptHi, PromptEmpty} /\ body[3] = "}"
    THEN [err |-> FALSE, prompt |-> PromptOf(body[2])]
    ELSE [err |-> TRUE, prompt |-> ""]

\* the statuses of queryHandler
StatusOK == 200
StatusBadRequest == 400
StatusMethodNotAllowed == 405

NoQuery == [method |-> "", body |-> <<>>]
NoOutput == [status |-> 0, response |-> "", requestID |-> ""]

\* http.Error(w, ..., code): the status and a plain-text body
HttpError(code) == [status |-> code, response |-> "", requestID |-> ""]

\* the server calls queryHandler with request r
QueryBegin(r) ==
    /\ qpc = "idle"
    /\ qreq' = r
    /\ qpc' = "method"
    /\ UNCHANGED <<qprompt, qout, qread>>
    /\ UNCHANGED <<hubvars, rlvars, gwvars, idvars>>

\* if r.Method != http.MethodPost
QueryMethod ==
    /\ qpc = "method"
    /\ IF qreq.method # "POST"
       THEN qout' = HttpError(StatusMethodNotAllowed) /\ qpc' = "done"
       ELSE qout' = qout /\ qpc' = "decode"
    /\ UNCHANGED <<qreq, qprompt, qread>>
    /\ UNCHANGED <<hubvars, rlvars, gwvars, idvars>>

\* if err := json.NewDecoder(r.Body).Decode(&req); err != nil
QueryDecode ==
    /\ qpc = "decode"
    /\ qread' = TRUE
    /\ IF Decode(qreq.body).err
       THEN qout' = HttpError(StatusBadRequest) /\ qpc' = "done" /\ qprompt' = qprompt
       ELSE qout' = qout /\ qpc' = "prompt" /\ qprompt' = Decode(qreq.body).prompt
    /\ UNCHANGED qreq
    /\ UNCHANGED <<hubvars, rlvars, gwvars, idvars>>

\* if req.Prompt == ""
QueryPrompt ==
    /\ qpc = "prompt"
    /\ IF qprompt = ""
       THEN qout' = HttpError(StatusBadRequest) /\ qpc' = "done"
       ELSE qout' = qout /\ qpc' = "respond"
    /\ UNCHANGED <<qreq, qprompt, qread>>
    /\ UNCHANGED <<hubvars, rlvars, gwvars, idvars>>

\* the QueryResponse is encoded on w, which answers 200; the request id is
\* generateRequestID() (main.go:143-145)
QueryRespond ==
    /\ qpc = "respond"
    /\ qout' = [status |-> StatusOK,
                response |-> "API Gateway is working! (MCP integration pending)",
                requestID |-> "req_" \o ToString(now)]
    /\ qpc' = "done"
    /\ UNCHANGED <<qreq, qprompt, qread>>
    /\ UNCHANGED <<hubvars, rlvars, gwvars, idvars>>

QueryNext ==
    \/ \E m \in Methods, b \in Bodies : QueryBegin([method |-> m, body |-> b])
    \/ QueryMethod
    \/ QueryDecode
    \/ QueryPrompt
    \/ QueryRespond

\* no call of generateClientID made yet
IdInit ==
    /\ inow = 0
    /\ gpc = "idle"
    /\ gnano = 0
    /\ ngen = 0
    /\ issued = {}

\* no request handed to queryHandler yet
QInit ==
    /\ qreq = NoQuery
    /\ qpc = "idle"
    /\ qprompt = ""
    /\ qout = NoOutput
    /\ qread = FALSE

\* the gateway was started with RATE_LIMIT spelling Limit
Init ==
    /\ HubInit /\ RLInit /\ GWInit /\ IdInit /\ QInit
    /\ env = <<Digits[Limit + 1]>>
    /\ ctl = NewRateLimiter(env)

\* the gateway process before main has run, for any value of RATE_LIMIT
InitCfg ==
    /\ HubInit /\ RLInit /\ GWInit /\ IdInit /\ QInit
    /\ env \in EnvValues
    /\ ctl = NoController

SpecGW == Init /\ [][GWNext]_vars

SpecCfg == InitCfg /\ [][Main]_vars

SpecHub == Init /\ [][HubNext]_vars

SpecRL == Init /\ [][RLNext]_vars

\* the hub fed with clients built by any sender of the package, and with
\* broadcasts
RegNext ==
    \/ \E c \in Clients, q \in Prefilled : HubRecvClient(c, q)
    \/ HubRegister
    \/ HubRecvBroadcast
    \/ \E c \in Clients : HubBroadcastStep(c)

SpecReg == Init /\ [][RegNext]_vars

SpecKA == Init /\ [][KANext]_vars

SpecId == Init /\ [][IdNext]_vars

SpecQuery == Init /\ [][QueryNext]_vars

\* a step of writePump that does not depend on the keepalive ticker
WriterStep(c) ==
    \/ WriterRecv(c)
    \/ WriterRecvClosed(c)
    \/ WriterNextWriter(c)
    \/ WriterNextWriterError(c)
    \/ WriterBatchStep(c)
    \/ WriterFlush(c)
    \/ WriterFlushError(c)

\* scheduling of the goroutines: a goroutine that can run does run (the hub
\* executes the case it has received, a reader whose connection is closed
\* gets its read error and runs its deferred function, a writer with a
\* message or a closed queue proceeds, a write returning by its deadline at
\* the latest), and a select that is entered again and again takes a sender
\* that keeps waiting on h.unregister; transport errors and the arrival of
\* connections and broadcasts are left to the environment
HubFairness ==
    /\ WF_vars(HubRegister)
    /\ WF_vars(HubUnregister)
    /\ \A c \in Clients : WF_vars(HubBroadcastStep(c))
    /\ \A c \in Clients : SF_vars(HubRecvUnregister(c))
    /\ \A c \in Clients : WF_vars(ReaderConnClosed(c))
    /\ \A c \in Clients : WF_vars(ReaderClose(c))
    /\ \A c \in Clients : WF_vars(WriterStep(c))

SpecHubFair == Init /\ [][HubNext]_vars /\ HubFairness

(***************************************************************************)
(* Properties of the hub.                                                  *)
(***************************************************************************)
\* the sequence <<a, a+1, ..., b>> (empty when b < a)
Run(a, b) == [i \in 1..(b - a + 1) |-> a + i - 1]

\* the hub has finished the enqueue attempt of broadcast k for session c
Processed(k, c) == nbcast > k \/ (nbcast = k /\ ~(hubpc = "broadcast" /\ c \in todo))

\* number of broadcasts, from broadcast mark on, already attempted for c
SinceMark(c) == (nbcast - mark + 1) - (IF hubpc = "broadcast" /\ c \in todo THEN 1 ELSE 0)

\* C1: while the hub processes a broadcast, each of its steps is one
\* non-blocking enqueue attempt on one session not yet visited: a session with
\* room gets the message appended and stays registered, a full session has
\* its queue closed and leaves the registry, no other session is touched; the
\* attempt is enabled whatever the state of the queues, and the hub returns
\* to its select only when every session of the registry has been visited.
C1_BroadcastNonBlocking ==
    /\ [](hubpc = "broadcast" /\ ~panicked =>
            /\ todo # {}
            /\ todo \subseteq clients
            /\ \A c \in todo : ENABLED HubBroadcastStep(c))
    /\ [][hubpc = "broadcast" /\ (todo' # todo \/ hubpc' # hubpc) =>
            \E c \in todo :
               /\ todo' = todo \ {c}
               /\ hubpc' = IF todo' = {} THEN "select" ELSE "broadcast"
               /\ Len(send[c]) < QueueCap =>
                     /\ send'[c] = Append(send[c], message)
                     /\ c \in clients' /\ ~closed'[c]
               /\ Len(send[c]) >= QueueCap =>
                     /\ send'[c] = send[c]
                     /\ c \notin clients' /\ closed'[c]
               /\ \A d \in Clients \ {c} :
                     /\ send'[d] = send[d]
                     /\ closed'[d] = closed[d]
                     /\ (d \in clients') = (d \in clients)]_vars

\* C1 witness: one broadcast evicted a full session and was enqueued on the
\* other one, and the hub is back in its select
C1_Witness ==
    \E c, d \in Clients :
        /\ c # d /\ hubpc = "select" /\ nbcast >= 1
        /\ closed[c] /\ c \notin clients /\ Len(send[c]) = QueueCap /\ disconnected = 0
        /\ d \in clients /\ enq[d] # <<>> /\ enq[d][Len(enq[d])] = nbcast

C3_UnregisterIdempotent ==
    [][hubpc = "unregister" /\ cur \notin clients /\ hubpc' # hubpc =>
          /\ hubpc' = "select"
          /\ clients' = clients /\ send' = send /\ closed' = closed
          /\ active' = active /\ connected' = connected /\ disconnected' = disconnected
          /\ ~panicked']_vars

\* C3 witness: the unregister of a session evicted earlier has been processed
\* (its reader is past the hand-off, the hub is back in its select) and no
\* unregister ever found its session in the registry
C3_Witness ==
    \E c \in Clients :
        /\ rpc[c] \in {"close", "exit"} /\ hubpc = "select" /\ cur = c
        /\ c \notin clients /\ closed[c] /\ disconnected = 0 /\ ~panicked

\* C4: on every session's transport the messages appear in the order in
\* which they were broadcast (message ids grow with the broadcast order, the
\* welcome being 0), and nothing follows the close frame.
C4_PerSessionFifo ==
    \A c \in Clients :
        \A i, j \in 1..Len(wire[c]) :
            i < j => /\ wire[c][i] # CloseMessage
                     /\ wire[c][j] # CloseMessage => wire[c][i] < wire[c][j]

\* C4 witness: a session's transport carries the welcome and two broadcasts
C4_Witness ==
    \E c \in Clients : Len(wire[c]) >= 3 /\ wire[c][3] = 2

\* C5: a session that is in the registry has had enqueued, after its welcome
\* and in order, every broadcast handed to the hub after its register
\* hand-off returned, up to the one the hub is processing (included once the
\* loop has visited the session).
C5_NoSkipAfterRegistration ==
    \A c \in clients :
        enq[c] = <<Welcome>> \o
                 Run(regDone[c] + 1,
                     nbcast - (IF hubpc = "broadcast" /\ c \in todo THEN 1 ELSE 0))

\* C5 witness: a session registered after the first broadcast holds the
\* second one
C5_Witness ==
    \E c \in clients : regDone[c] = 1 /\ enq[c] = <<Welcome, 2>>

\* C6: every session of the registry has been sent a welcome; a queue
\* history and a transport stream start with the welcome and hold it once.
C6_WelcomeFirst ==
    \A c \in Clients :
        /\ c \in clients => enq[c] # <<>>
        /\ enq[c] # <<>> => /\ enq[c][1] = Welcome
                            /\ \A i \in 2..Len(enq[c]) : enq[c][i] # Welcome
        /\ wire[c] # <<>> => /\ wire[c][1] = Welcome
                             /\ \A i \in 2..Len(wire[c]) : wire[c][i] # Welcome

\* C6 witness: a session received its welcome and then a broadcast
C6_Witness ==
    \E c \in Clients : Len(wire[c]) >= 2 /\ wire[c][1] = Welcome /\ wire[c][2] >= 1

\* the teardown of session c has been triggered: its reader left its loop,
\* its writer returned, its transport or its queue is closed
Torn(c) ==
    rpc[c] \in {"unregister", "close", "exit"} \/ wpc[c] = "exit"
       \/ conn[c] = "closed" \/ closed[c]

\* the reader of c has completed c.hub.unregister <- c
Notified(c) == rpc[c] \in {"close", "exit"}

\* the state of session c: 0 before the handshake, 1 CONNECTING (handed to
\* the hub, register case not yet executed), 2 REGISTERED, 3 UNREGISTERING
\* (in the registry, teardown triggered), 4 CLOSED
Rank(c) ==
    IF hpc[c] = "idle" THEN 0
    ELSE IF hubpc = "register" /\ cur = c THEN 1
    ELSE IF c \in clients /\ ~Torn(c) THEN 2
    ELSE IF c \in clients THEN 3
    ELSE 4

\* C16: a session never moves back in CONNECTING -> REGISTERED ->
\* UNREGISTERING -> CLOSED; a session enters the registry only in the register
\* case run for it, once; a session out of the registry after that case stays
\* out, and a session whose queue is closed is not in the registry.
C16_ClosedTerminal ==
    /\ [](\A c \in Clients : closed[c] => c \notin clients)
    /\ [][\A c \in Clients :
             /\ Rank(c)' >= Rank(c)
             /\ Rank(c) = 4 => (Rank(c)' = 4 /\ c \notin clients')
             /\ (c \notin clients /\ c \in clients') =>
                   (hubpc = "register" /\ cur = c /\ enq[c] = <<>>)]_vars

\* C16 witness: a registered session was removed and the hub has since
\* executed another command for it, its unregister
C16_Witness ==
    \E c \in Clients :
        /\ Rank(c) = 4 /\ enq[c] # <<>> /\ closed[c]
        /\ Notified(c) /\ cur = c /\ hubpc = "select"

\* C17: the hub receives an unregister for a session only from the deferred
\* function of its reader, which hands it over once: after the hand-off no
\* further unregister for the session reaches the hub; and whatever triggered
\* the teardown of a session, the hand-off eventually takes place (a
\* teardown once triggered stays triggered, so that every behaviour ends with
\* each session either untouched or past its hand-off).
C17_ExactlyOneUnregister ==
    /\ [][\A c \in Clients :
             /\ (hubpc = "select" /\ hubpc' = "unregister" /\ cur' = c) =>
                   (rpc[c] = "unregister" /\ rpc'[c] = "close")
             /\ Notified(c) => Notified(c)'
             /\ Torn(c) => Torn(c)']_vars
    /\ <>[](\A c \in Clients : Torn(c) => Notified(c))

\* C17 witness: a session evicted for overflow has handed over its
\* unregister and its reader has returned
C17_Witness ==
    \E c \in Clients :
        /\ rpc[c] = "exit" /\ closed[c] /\ disconnected = 0
        /\ Len(enq[c]) = QueueCap + Dequeued(c) /\ hubpc = "select"

\* C18: a session has its reader exactly when it has its writer, both from
\* the end of wsHandler on, a pump that has returned does not run again, and
\* when one of them has returned the other one eventually returns: every
\* behaviour ends with both pumps of a session returned or both running.
C18_PumpsTerminateTogether ==
    /\ [](\A c \in Clients :
             /\ (hpc[c] = "done") = (rpc[c] # "none")
             /\ (hpc[c] = "done") = (wpc[c] # "none"))
    /\ [][\A c \in Clients :
             /\ rpc[c] = "exit" => rpc'[c] = "exit"
             /\ wpc[c] = "exit" => wpc'[c] = "exit"]_vars
    /\ <>[](\A c \in Clients : (rpc[c] = "exit") = (wpc[c] = "exit"))

\* C18 witness: the writer of a session has returned on a write error while
\* its reader is still reading, and both pumps of another session have returned
C18_Witness ==
    \E c, d \in Clients :
        /\ c # d /\ wpc[c] = "exit" /\ rpc[c] = "read" /\ ~closed[c]
        /\ wpc[d] = "exit" /\ rpc[d] = "exit"

\* C19: a writer waiting on a closed queue can always proceed, a writer that
\* has returned has closed the transport, a closed queue stays closed, and
\* once the hub has closed the queue of a session its writer eventually
\* returns.
C19_WriterObservesClosure ==
    /\ [](\A c \in Clients :
             /\ (closed[c] /\ wpc[c] = "wait" /\ ~panicked) => ENABLED WriterStep(c)
             /\ wpc[c] = "exit" => conn[c] = "closed")
    /\ [][\A c \in Clients : closed[c] => closed'[c]]_vars
    /\ <>[](\A c \in Clients : closed[c] => (wpc[c] = "exit" /\ conn[c] = "closed"))

\* C19 witness: the writer of a session the hub unregistered drained the
\* queue, wrote the close frame and returned
C19_Witness ==
    \E c \in Clients :
        /\ closed[c] /\ disconnected >= 1 /\ wpc[c] = "exit" /\ conn[c] = "closed"
        /\ wire[c] # <<>> /\ wire[c][Len(wire[c])] = CloseMessage

\* C20: the case the hub has received can always be executed, whatever the
\* state of the queues, and the hub in its select can always take the
\* unregister of a reader that offers one; the commands of a behaviour
\* being finitely many, the hub ends in its select with every unregister
\* offered taken.
C20_HubNeverBlocks ==
    /\ [](~panicked =>
            /\ hubpc = "register" => ENABLED HubRegister
            /\ hubpc = "unregister" => ENABLED HubUnregister
            /\ hubpc = "broadcast" => \E c \in Clients : ENABLED HubBroadcastStep(c)
            /\ \A c \in Clients :
                  (hubpc = "select" /\ rpc[c] = "unregister") =>
                     ENABLED HubRecvUnregister(c))
    /\ <>[](hubpc = "select" /\ \A c \in Clients : rpc[c] # "unregister")

\* C20 witness: the hub is back in its select after a broadcast made while
\* one session had a full queue and no writer taking from it, and it has
\* taken the unregister of the other session
C20_Witness ==
    \E c, d \in Clients :
        /\ c # d /\ hubpc = "select" /\ nbcast >= 1 /\ ~panicked
        /\ closed[c] /\ Len(send[c]) = QueueCap /\ wpc[c] = "exit"
        /\ Notified(d) /\ disconnected >= 1

\* C22: the register case the hub has received can always be executed,
\* whatever the queue of the session holds; executed for a session whose
\* queue is full it closes the queue, leaves it as it is and takes the
\* session out of the registry; executed for a session with room it appends
\* the welcome and puts the session in the registry; either way the hub is
\* back in its select, nothing has panicked and no other session is touched.
C22_RegisterFullTornDown ==
    /\ [](hubpc = "register" /\ ~panicked => ENABLED HubRegister)
    /\ [][hubpc = "register" /\ hubpc' # hubpc =>
            /\ hubpc' = "select" /\ ~panicked'
            /\ Len(send[cur]) >= QueueCap =>
                  /\ closed'[cur] /\ cur \notin clients'
                  /\ send'[cur] = send[cur]
            /\ Len(send[cur]) < QueueCap =>
                  /\ ~closed'[cur] /\ cur \in clients'
                  /\ send'[cur] = Append(send[cur], Welcome)
            /\ \A d \in Clients \ {cur} :
                  /\ send'[d] = send[d]
                  /\ closed'[d] = closed[d]
                  /\ (d \in clients') = (d \in clients)]_vars

\* C22 witness: a session handed over with a full queue was torn down by its
\* register case, and the hub has since enqueued a broadcast on a session
\* registered after it
C22_Witness ==
    \E c, d \in Clients :
        /\ c # d /\ hubpc = "select" /\ ~panicked
        /\ closed[c] /\ c \notin clients /\ Len(enq[c]) = QueueCap
        /\ Welcome \notin {enq[c][i] : i \in 1..Len(enq[c])}
        /\ d \in clients /\ nbcast >= 1 /\ enq[d][Len(enq[d])] = nbcast
        /\ regDone[c] = 0 /\ regDone[d] = 0

\* C28: nothing panics; the queue the hub is about to enqueue on (the one
\* of the session being registered, those of the sessions the broadcast loop
\* has yet to visit) and the queue the unregister case is about to close
\* are open; and a step closes the queue of a session exactly when it takes
\* the session out of the registry.
C28_ClosedOnce ==
    /\ [](/\ ~panicked
          /\ hubpc = "register" => ~closed[cur]
          /\ hubpc = "broadcast" => \A c \in todo : ~closed[c]
          /\ (hubpc = "unregister" /\ cur \in clients) => ~closed[cur])
    /\ [][\A c \in Clients :
             (~closed[c] /\ closed'[c]) <=> (c \in clients /\ c \notin clients')]_vars

\* C28 witness: one session was evicted for overflow, the other one was
\* unregistered by its reader, and the hub has also processed the unregister
\* of the evicted session
C28_Witness ==
    \E c, d \in Clients :
        /\ c # d /\ hubpc = "select" /\ ~panicked
        /\ closed[c] /\ closed[d] /\ clients = {}
        /\ Notified(c) /\ Notified(d) /\ cur = c
        /\ disconnected = 1 /\ active = 0 /\ Len(send[c]) = QueueCap

DataWire(c) == SelectSeq(wire[c], LAMBDA m : m # CloseMessage)

\* sequence s is a prefix of sequence t
IsPrefix(s, t) == Len(s) <= Len(t) /\ SubSeq(t, 1, Len(s)) = s

\* C30: the messages on a session's transport are a prefix of the messages
\* enqueued for it; until its writer returns, the transport, the frame being
\* assembled and the queue together hold every message enqueued, once and in
\* order; a close frame is on the transport only after every message
\* enqueued; and an iteration of the batching loop finds a message in the
\* queue, so that it can always run.
C30_WirePrefixOfEnqueued ==
    \A c \in Clients :
        /\ IsPrefix(DataWire(c), enq[c])
        /\ wpc[c] # "exit" => DataWire(c) \o wbuf[c] \o send[c] = enq[c]
        /\ (\E i \in 1..Len(wire[c]) : wire[c][i] = CloseMessage) =>
               (DataWire(c) = enq[c] /\ wire[c][Len(wire[c])] = CloseMessage)
        /\ wpc[c] = "batch" => wn[c] <= Len(send[c])
        /\ (wpc[c] = "batch" /\ wn[c] > 0 /\ ~panicked) => ENABLED WriterBatchStep(c)

\* C30 witness: the writer of one session, its queue closed, has written
\* the welcome and then the close frame, and the writer of the other one is
\* assembling a frame of two messages taken from its queue
C30_Witness ==
    \E c, d \in Clients :
        /\ c # d /\ closed[c] /\ disconnected >= 1 /\ wpc[c] = "exit"
        /\ wire[c] = <<Welcome, CloseMessage>> /\ enq[c] = <<Welcome>>
        /\ wpc[d] = "batch" /\ Len(wbuf[d]) = 2 /\ wn[d] = 0
        /\ DataWire(d) \o wbuf[d] = enq[d]

\* C21: a session in the registry had its peer active less than a ping
\* period plus a read deadline ago; a reader in its loop has a read deadline,
\* not yet passed and at most one read deadline after the last activity of
\* the peer; the read deadline changes only when readPump starts and when a
\* pong answers a ping, to one read deadline from that instant; and a reader
\* leaves its loop, for an expired deadline as for any other read error, to
\* hand its session to the unregister case.
C21_KeepaliveEviction ==
    /\ [](\A c \in Clients :
             /\ c \in clients => clock <= lastAct[c] + PingPeriod + PongWait
             /\ rpc[c] = "read" =>
                   /\ deadline[c] # NoDeadline
                   /\ clock <= deadline[c]
                   /\ deadline[c] <= lastAct[c] + PongWait)
    /\ [][\A c \in Clients :
             /\ deadline'[c] # deadline[c] =>
                   /\ deadline'[c] = clock + PongWait
                   /\ \/ rpc[c] = "none" /\ rpc'[c] = "read"
                      \/ rpc[c] = "read" /\ pinged[c] /\ ~pinged'[c]
             /\ (rpc[c] = "read" /\ rpc'[c] # "read") => rpc'[c] = "unregister"]_vars

\* C21 witness: of two sessions opened at instant 0, the one whose peer
\* answered a ping is in the registry after the first read deadline, and the
\* one whose peer did nothing, its ping unanswered and its writer still
\* running, was unregistered when the deadline passed
C21_Witness ==
    \E c, d \in Clients :
        /\ c # d /\ hubpc = "select" /\ clock > PongWait
        /\ c \notin clients /\ closed[c] /\ Notified(c) /\ disconnected = 1
        /\ lastAct[c] = 0 /\ pinged[c] /\ deadline[c] = PongWait /\ wpc[c] = "wait"
        /\ d \in clients /\ rpc[d] = "read" /\ lastAct[d] = PingPeriod
        /\ deadline[d] = PingPeriod + PongWait

\* C23 (the claim): two calls of generateClientID whose clock readings
\* differ return different ids, and no id is empty.
C23_UniqueClientIds ==
    \A a, b \in issued :
        /\ a.id # <<>>
        /\ a.at # b.at => a.id # b.id

(***************************************************************************)
(* Properties of the rate limiter.                                         *)
(***************************************************************************)
\* the identities the callers can resolve to
Identities == {Resolve(u) : u \in Users}

\* the number of completed calls, repeated ones included, among the records S
RECURSIVE Copies(_)
Copies(S) ==
    IF S = {} THEN 0
    ELSE LET r == CHOOSE x \in S : TRUE
         IN  CopiesIn(r, hist) + Copies(S \ {r})

\* the completed calls of the identity u resolves to
Prior(u) == {r \in BagToSet(hist) : Resolve(r.user) = Resolve(u)}

\* the call a step has completed
Added(h0, h1) == CHOOSE r \in BagToSet(h1) : CopiesIn(r, h1) > CopiesIn(r, h0)

\* caller p returns from IsAllowed in this step
Returns(p) == cpc[p] # "idle" /\ cpc'[p] = "idle"

\* a call is between its first and its last store command
Mid(p) == cpc[p] \in {"zcard", "zadd", "expire"}

\* C7: the count of a call is the number of members its identity's record
\* holds when ZCARD runs, after the call's own prune and before its own add;
\* a call returns true exactly when it returns no error and that count is
\* strictly below the limit.
C7_AllowedIffUnderLimit ==
    /\ [](\A r \in BagToSet(hist) :
             r.allowed <=> (~r.err /\ r.count < Limit))
    /\ [][\A p \in Callers :
             /\ cpc[p] = "zcard" /\ cpc'[p] = "zadd" =>
                   ccount'[p] = Cardinality(LiveSet(Key(cuser[p])))
             /\ Returns(p) =>
                   LET r == Added(hist, hist')
                   IN  /\ hist' = hist (+) SetToBag({r})
                       /\ r.user = cuser[p]
                       /\ r.err \/ /\ cpc[p] = "expire"
                                   /\ r.ts = cnow[p]
                                   /\ r.count = ccount[p]]_vars

\* C7 witness: one call was let through with a count just below the limit and
\* one was refused with a count at the limit
C7_Witness ==
    \E r, d \in BagToSet(hist) :
        /\ ~r.err /\ r.allowed /\ r.count = Limit - 1
        /\ ~d.err /\ ~d.allowed /\ d.count = Limit

\* C8 (the claim, for calls made one after the other without store errors):
\* a call preceded by fewer than Limit calls of its identity returns true; a
\* call preceded by at least Limit calls of its identity that are less than a
\* window old returns false; a call made more than a window after every
\* earlier call of its identity returns true.
C8_SlidingWindow ==
    [][\A p \in Callers :
          (Returns(p) /\ ~overlap /\ \A r \in BagToSet(hist') : ~r.err) =>
             LET r == Added(hist, hist')
                 prior == Prior(cuser[p])
             IN  /\ Copies(prior) < Limit => r.allowed
                 /\ Copies({i \in prior : r.ts - i.ts < Window}) >= Limit
                       => ~r.allowed
                 /\ (\A i \in prior : r.ts - i.ts > Window) => r.allowed]_vars

\* C9: a step of a call for one identity leaves the record (members and
\* expiry) of every other identity as it is, and a call that is the first of
\* its identity, with no other call of that identity running, counts nothing
\* and is let through whatever the calls for other identities have done.
C9_WindowIndependence ==
    [][\A p \in Callers :
          /\ cpc'[p] # cpc[p] =>
                LET a == Resolve(IF cpc[p] = "idle" THEN cuser'[p] ELSE cuser[p])
                IN  \A b \in Identities \ {a} :
                       /\ zset'[Key(b)] = zset[Key(b)]
                       /\ ttl'[Key(b)] = ttl[Key(b)]
          /\ Returns(p) =>
                LET r == Added(hist, hist')
                IN  (/\ ~r.err
                     /\ Prior(cuser[p]) = {}
                     /\ \A q \in Callers \ {p} :
                           cpc[q] # "idle" => Resolve(cuser[q]) # Resolve(cuser[p]))
                    => (r.count = 0 /\ r.allowed)]_vars

\* C9 witness: the calls were made one after the other, one identity's record
\* holds a full quota of calls, and the only call of another identity, made
\* after them, was let through with a count of 0
C9_Witness ==
    \E r \in BagToSet(hist) :
        /\ ~overlap /\ ~r.err /\ r.allowed /\ r.count = 0
        /\ Copies(Prior(r.user)) = 1
        /\ \E a \in Identities \ {Resolve(r.user)} :
              /\ Cardinality(LiveSet(Key(a))) >= Limit
              /\ \A i \in BagToSet(hist) : Resolve(i.user) = a => i.ts < r.ts

\* C10 (the claim): two concurrent calls for the same identity are never both
\* between their first and their last store command.
C10_PipelineAtomic ==
    \A p, q \in Callers :
        (p # q /\ Mid(p) /\ Mid(q)) => Key(cuser[p]) # Key(cuser[q])

\* the timestamps recorded by the completed calls of the identity u resolves to
Recorded(u) == {r.ts : r \in Prior(u)}

\* C11 (the claim, for calls made one after the other without store errors):
\* when a call counts its identity's record, the record holds exactly the
\* timestamps t recorded by the earlier calls of the identity with
\* now - window <= t <= now, now being the call's clock reading.
C11_ClosedWindowExact ==
    [][\A p \in Callers :
          (/\ cpc[p] = "zcard" /\ cpc'[p] = "zadd"
           /\ ~overlap /\ \A r \in BagToSet(hist) : ~r.err) =>
             /\ LiveSet(Key(cuser[p])) =
                   {t \in Recorded(cuser[p]) : cnow[p] - Window <= t /\ t <= cnow[p]}
             /\ ccount'[p] = Cardinality(LiveSet(Key(cuser[p])))]_vars

\* some call for the identity of u is running
Running(u) == \E q \in Callers : cpc[q] # "idle" /\ Resolve(cuser[q]) = Resolve(u)

\* C25 (the claim): when a call returns without error, true or false, the
\* record of its identity holds the call's timestamp and expires one window
\* after the instant of the return; and while no call of an identity is
\* running and none of its calls met a store error, the record holds an
\* entry and is not due to expire before one window after each of its
\* completed calls.
C25_EveryCallRecorded ==
    /\ [][\A p \in Callers :
             (Returns(p) /\ ~Added(hist, hist').err) =>
                LET k == Key(cuser[p])
                IN  /\ cnow[p] \in zset'[k]
                    /\ ttl'[k] = now + Window]_vars
    /\ [](\A r \in BagToSet(hist) :
             (/\ ~Running(r.user)
              /\ \A i \in Prior(r.user) : ~i.err
              /\ now < r.ts + Window) =>
                /\ LiveSet(Key(r.user)) # {}
                /\ ttl[Key(r.user)] >= r.ts + Window)

\* C26 (the claim, for calls made one after the other): the ZADD of a call
\* leaves the record of its identity with exactly one entry more than the
\* count the call observed.
C26_OneEntryPerCall ==
    [][\A p \in Callers :
          (cpc[p] = "zadd" /\ cpc'[p] = "expire" /\ ~overlap) =>
             Cardinality(LiveSet(Key(cuser[p]))') = ccount[p] + 1]_vars

\* the instants of a behaviour
Instants == StartTime..(StartTime + MaxTicks)

\* C27 (the claim): for every identity and every instant t, at most Limit of
\* the completed calls of the identity with a timestamp in (t - Window, t]
\* returned true.
C27_AtMostLimitPerWindow ==
    \A u \in Users, t \in Instants :
        Copies({r \in Prior(u) : r.allowed /\ t - Window < r.ts /\ r.ts <= t}) <= Limit

(***************************************************************************)
(* Properties of the gateway.                                              *)
(***************************************************************************)
\* C12: a request whose IsAllowed call returned false without error is not
\* passed to the wrapped handler, is answered 429, and carries a Retry-After
\* equal to the window of the controller, which is the window of every
\* controller NewRateLimiter can return.
C12_DeniedResponse ==
    \A r \in resp :
        (~r.err /\ ~r.allowed) =>
            /\ ~r.out.served
            /\ r.out.status = StatusTooManyRequests
            /\ r.out.retry = ctl.window
            /\ \A e \in EnvValues : r.out.retry = NewRateLimiter(e).window

\* C12 witness: a request was refused
C12_Witness ==
    \E r \in resp : ~r.err /\ ~r.allowed /\ r.out.status = StatusTooManyRequests

\* C13: a call that returns before the store has executed its four commands
\* returns an error, and an error comes with false; a request whose call
\* returned an error is answered 500, without Retry-After and without the
\* wrapped handler running, and no request answered 429 or passed to the
\* handler had an error.
C13_StoreFailureDistinct ==
    /\ [](/\ \A h \in BagToSet(hist) : h.err => ~h.allowed
          /\ \A r \in resp :
                /\ r.err => /\ r.out.status = StatusInternalServerError
                            /\ r.out.retry = 0
                            /\ ~r.out.served
                /\ r.out.status = StatusTooManyRequests => ~r.err
                /\ r.out.served => (~r.err /\ r.allowed))
    /\ [][\A p \in Callers :
             (Returns(p) /\ cpc[p] # "expire") => Added(hist, hist').err]_vars

\* C13 witness: one request met a store failure, one was refused and one
\* was passed to the handler
C13_Witness ==
    \E r, d, a \in resp :
        /\ r.err /\ r.out.status = StatusInternalServerError
        /\ ~d.err /\ ~d.allowed
        /\ a.out.served

\* C14 (the claim): the admission check of a request without X-User-ID is
\* made on the record of the anonymous identity.
C14_AnonymousShared ==
    \A p \in Callers :
        (mreq[p] # NoRequest /\ mreq[p].header = "") => Key(cuser[p]) = Key("")

\* C15 (the claim): main gets a controller only if RATE_LIMIT is unset or
\* spells a positive number.
C15_FailFast ==
    ctl # NoController => (env = <<>> \/ (~Atoi(env).err /\ Atoi(env).val > 0))

\* the body is one JSON value and nothing else
ValidJSON(body) ==
    \/ body = <<"7">>
    \/ body = <<"{", "}">>
    \/ Len(body) = 3 /\ body[1] = "{" /\ body[2] \in {PromptHi, PromptEmpty}
          /\ body[3] = "}"

\* the prompt a valid body carries ("" if none)
BodyPrompt(body) == IF Len(body) = 3 THEN PromptOf(body[2]) ELSE ""

\* C24 (the claim): when queryHandler has answered, a request that is not a
\* POST got 405 without its body having been read; a POST whose body is not
\* valid JSON or carries an empty prompt got 400; a POST whose body is valid
\* JSON with a non-empty prompt got 200, a non-empty response and a
\* non-empty request id.
C24_QueryHandlerCodes ==
    qpc = "done" =>
        /\ qreq.method # "POST" =>
              (qout.status = StatusMethodNotAllowed /\ ~qread)
        /\ (qreq.method = "POST"
              /\ (~ValidJSON(qreq.body) \/ BodyPrompt(qreq.body) = "")) =>
              qout.status = StatusBadRequest
        /\ (qreq.method = "POST" /\ ValidJSON(qreq.body)
              /\ BodyPrompt(qreq.body) # "") =>
              /\ qout.status = StatusOK
              /\ qout.response # "" /\ qout.requestID # ""

====
